---- MODULE Spec2Model ----
(***************************************************************************)
(* Model of 2022/src/bin/day07.rs: the shell-transcript parser that builds *)
(* a filesystem tree, the explicit-stack depth-first iterator over it, and *)
(* the two aggregate queries of main.  The calorie-ledger functions of     *)
(* day01.rs and the marker search of day06.rs are modelled next to it,     *)
(* each with variables and a specification of its own.                     *)
(*                                                                         *)
(* Rc<RefCell<FsNode>> cells are modelled as an arena: `nodes` is the      *)
(* sequence of all cells allocated so far and an Rc is an index into it.   *)
(* Text is modelled as sequences of one-character strings.                 *)
(***************************************************************************)
EXTENDS Integers, Sequences, FiniteSets, TLC

\* ------------------------------------------------------------------ bounds
\* Largest number of cells (root included) the parser may allocate.
MaxNodes == 4

\* ------------------------------------------------------------ constants
\* `.filter(|size| *size <= 100_000)`
Threshold == 100000
\* `70_000_000 - fs.root.borrow().get_total_size()`
Capacity == 70000000
\* Option::None for an Option<Rc<..>>; Rc indices start at 1.
None == 0
\* `let root = FsNode::directory("/", vec![])` is the first cell allocated.
Root == 1

VARIABLES
    pc,         \* where main is: "parsing", "parsed", "q1done", "q2done", "panicked"
    err,        \* the panic message once pc = "panicked", "" before
    nodes,      \* arena of FsNode cells
    dir_stack,  \* parse_shell_session_output's DirStack
    iter,       \* the FsIterator under test (NoIter before into_iter)
    ret,        \* what the last next() returned (None or an Rc), -1 before the first call
    yielded,    \* every Some(..) returned by next() since into_iter, in order
    q1,         \* sum_size_dirs_below_100_000 (-1 before it is computed)
    q2,         \* size_smallest_dir_for_update (-1 before it is computed)
    iter2,      \* a second FsIterator over the same Filesystem (NoIter before)
    ret2,       \* what the second iterator's last next() returned, -1 before
    yielded2,   \* every Some(..) the second iterator returned, in order
    ledger,     \* day01: the CalorieLedgerToken stream handed to the functions
    consumed,   \* day01: tokens the iterator inside iter_calories has taken
    calories,   \* day01: every Some(..) iter_calories returned, in order
    cal_ret,    \* day01: what iter_calories' last next() returned, <<-1>> before
    stage1,     \* day01: challenge_stage1's result (-1 before it is computed)
    n_largest1, \* day01: challenge_n_largest::<1>'s result (-1 before)
    stream,     \* day06: the input of find_first_marker
    marker      \* day06: <<N, result>> of the find_first_marker::<N> call made, <<>> before

\* The variables of the second iterator, of day01.rs and of day06.rs.
iter2vars == <<iter2, ret2, yielded2>>

day01vars == <<ledger, consumed, calories, cal_ret, stage1, n_largest1>>

day06vars == <<stream, marker>>

vars == <<pc, err, nodes, dir_stack, iter, ret, yielded, q1, q2,
          iter2vars, day01vars, day06vars>>

\* ------------------------------------------------------------- text
Digits == <<"0", "1", "2", "3", "4", "5", "6", "7", "8", "9">>

DigitValue(c) == CHOOSE d \in 0..9 : Digits[d + 1] = c

IsDigit(c) == \E d \in 0..9 : Digits[d + 1] = c

\* str::split(' '): the pieces between the separators; never empty, an empty
\* line gives the single piece "".
RECURSIVE SplitFrom(_, _, _)
SplitFrom(line, i, cur) ==
    IF i > Len(line) THEN <<cur>>
    ELSE IF line[i] = " " THEN <<cur>> \o SplitFrom(line, i + 1, <<>>)
    ELSE SplitFrom(line, i + 1, Append(cur, line[i]))

Split(line) == SplitFrom(line, 1, <<>>)

\* The digits of `s` from position i on, folded most significant first; -1 on a
\* character that is no digit.  (A value that does not fit a usize is an Err
\* too; no token of LineAlphabet has more than 8 digits, so none overflows.)
RECURSIVE ParseDigits(_, _, _)
ParseDigits(s, i, acc) ==
    IF i > Len(s) THEN acc
    ELSE IF ~IsDigit(s[i]) THEN -1
    ELSE ParseDigits(s, i + 1, acc * 10 + DigitValue(s[i]))

\* Mutant of ParseUsize: atoi-like, the leading digits are taken and whatever
\* follows them is ignored.
RECURSIVE LeadingDigits(_, _, _)
LeadingDigits(s, i, acc) ==
    IF i > Len(s) \/ ~IsDigit(s[i]) THEN acc
    ELSE LeadingDigits(s, i + 1, acc * 10 + DigitValue(s[i]))

ParseUsizeAtoi(s) ==
    IF Len(s) = 0 \/ ~IsDigit(s[1]) THEN -1 ELSE LeadingDigits(s, 1, 0)

\* str::parse::<usize>(): an optional leading '+', then at least one digit;
\* -1 stands for Err(ParseIntError).
ParseUsize(s) ==
    IF Len(s) = 0 THEN -1
    ELSE IF s[1] = "+" THEN (IF Len(s) = 1 THEN -1 ELSE ParseDigits(s, 2, 0))
    ELSE ParseDigits(s, 1, 0)

\* ------------------------------------------------------------- FsNode
\* FsNode::file(name, size)
File(name, size) ==
    [kind |-> "File", name |-> name, size |-> size, children |-> <<>>]

\* FsNode::directory(name, children)
Directory(name, children) ==
    [kind |-> "Directory", name |-> name, size |-> 0, children |-> children]

IsFile(ns, n) == ns[n].kind = "File"

IsDirectory(ns, n) == ns[n].kind = "Directory"

\* Mutant of GetTotalSize: a directory adds up the size fields of its direct
\* children only and does not recurse into subdirectories.
RECURSIVE SumSizeFields(_, _, _)
SumSizeFields(ns, cs, i) ==
    IF i > Len(cs) THEN 0 ELSE ns[cs[i]].size + SumSizeFields(ns, cs, i + 1)

GetTotalSizeShallow(ns, n) ==
    IF ns[n].kind = "File" THEN ns[n].size
    ELSE SumSizeFields(ns, ns[n].children, 1)

\* FsNode::get_total_size on cell n of arena ns:
\* a file's size, or the sum over a directory's children, in child order.
RECURSIVE GetTotalSize(_, _)
RECURSIVE SumChildren(_, _, _)
\* Mutant of SumChildren: the fold stops one child early.
RECURSIVE SumChildrenOffByOne(_, _, _)
SumChildrenOffByOne(ns, cs, i) ==
    IF i >= Len(cs) THEN 0
    ELSE GetTotalSize(ns, cs[i]) + SumChildrenOffByOne(ns, cs, i + 1)

SumChildren(ns, cs, i) ==
    IF i > Len(cs) THEN 0
    ELSE GetTotalSize(ns, cs[i]) + SumChildren(ns, cs, i + 1)

GetTotalSize(ns, n) ==
    IF ns[n].kind = "File" THEN ns[n].size
    ELSE SumChildren(ns, ns[n].children, 1)

\* Mutant of FindChildDir: the name is compared without first matching the
\* child against FsNode::Directory, so a file of that name is returned too.
RECURSIVE FindChildAnyKind(_, _, _, _)
FindChildAnyKind(ns, cs, i, child_name) ==
    IF i > Len(cs) THEN None
    ELSE IF ns[cs[i]].name = child_name THEN cs[i]
    ELSE FindChildAnyKind(ns, cs, i + 1, child_name)

\* Mutant of FindChildDir: the scan keeps going after a match, so the last
\* matching directory wins.
RECURSIVE FindChildLastDir(_, _, _, _)
FindChildLastDir(ns, cs, i, child_name) ==
    IF i > Len(cs) THEN None
    ELSE LET later == FindChildLastDir(ns, cs, i + 1, child_name)
         IN  IF later # None THEN later
             ELSE IF ns[cs[i]].kind = "Directory" /\ ns[cs[i]].name = child_name
             THEN cs[i]
             ELSE None

\* The loop of FsNode::get_child_by_name over children cs from position i:
\* the first child that is a Directory with the given name, None when the
\* loop runs out (the code then panics "child not found").
RECURSIVE FindChildDir(_, _, _, _)
FindChildDir(ns, cs, i, child_name) ==
    IF i > Len(cs) THEN None
    ELSE IF ns[cs[i]].kind = "Directory" /\ ns[cs[i]].name = child_name THEN cs[i]
    ELSE FindChildDir(ns, cs, i + 1, child_name)

\* FsNode::get_child_by_name: [ok, node] or [ok = FALSE, err].
GetChildByName(ns, n, child_name) ==
    IF ns[n].kind = "File"
    THEN [ok |-> FALSE, node |-> None, err |-> "a file has no children"]
    ELSE LET found == FindChildDir(ns, ns[n].children, 1, child_name)
         IN  IF found = None
             THEN [ok |-> FALSE, node |-> None, err |-> "child not found"]
             ELSE [ok |-> TRUE, node |-> found, err |-> ""]

\* Mutant of PushChild: the child is inserted at the front of the Vec.
PushChildFront(ns, n, child) ==
    [ns EXCEPT ![n].children = <<child>> \o @]

\* Mutant of PushChild: a child whose name is already taken replaces the
\* children of that name instead of joining them.
RECURSIVE DropNamed(_, _, _, _)
DropNamed(ns, cs, i, name) ==
    IF i > Len(cs) THEN <<>>
    ELSE IF ns[cs[i]].name = name THEN DropNamed(ns, cs, i + 1, name)
    ELSE <<cs[i]>> \o DropNamed(ns, cs, i + 1, name)

PushChildDedup(ns, n, child) ==
    [ns EXCEPT ![n].children = Append(DropNamed(ns, @, 1, ns[child].name), child)]

\* FsNode::push_child on cell n: the arena with `child` appended to n's
\* children.  (On a File the code panics; PushChildInTopFsNode tests that.)
PushChild(ns, n, child) ==
    [ns EXCEPT ![n].children = Append(@, child)]

\* ------------------------------------------------------------- transcript
\* The lines a transcript is drawn from: every production of the grammar over
\* the names a, b and two file sizes, and the malformed shapes.
LineCdRoot == <<"$", " ", "c", "d", " ", "/">>  \* `$ cd /`
LineCdUp == <<"$", " ", "c", "d", " ", ".", ".">>  \* `$ cd ..`
LineCdA == <<"$", " ", "c", "d", " ", "a">>  \* `$ cd a`
LineCdB == <<"$", " ", "c", "d", " ", "b">>  \* `$ cd b`
LineLs == <<"$", " ", "l", "s">>  \* `$ ls`
LineDirA == <<"d", "i", "r", " ", "a">>  \* `dir a`
LineDirB == <<"d", "i", "r", " ", "b">>  \* `dir b`
LineFileSmall == <<"6", "0", "0", "0", "0", " ", "a">>  \* `60000 a`
LineFileBig == <<"4", "0", "0", "0", "0", "0", "0", "0", " ", "a">>  \* `40000000 a`
LineBlank == <<>>  \* ``
LineDollar == <<"$">>  \* `$`
LineCdNoArg == <<"$", " ", "c", "d">>  \* `$ cd`
LineRm == <<"$", " ", "r", "m", " ", "a">>  \* `$ rm a`
LineDirNoName == <<"d", "i", "r">>  \* `dir`
LineBadSize == <<"6", "x", " ", "a">>  \* `6x a`
LineLsExtra == <<"$", " ", "l", "s", " ", "-", "l">>  \* `$ ls -l`
LineDirExtra == <<"d", "i", "r", " ", "a", " ", "x">>  \* `dir a x`
LinePlusSize == <<"+", "6", "0", "0", "0", "0", " ", "a">>  \* `+60000 a`
LineNegSize == <<"-", "1", " ", "a">>  \* `-1 a`
LineNoSize == <<" ", "a">>  \* ` a`
LineCdExtra == <<"$", " ", "c", "d", " ", "a", " ", "b">>  \* `$ cd a b`

Line100F == <<"1", "0", "0", " ", "f">>  \* `100 f`

\* The well-formed lines: transcripts a real shell session can produce.
TranscriptAlphabet ==
    {LineCdRoot, LineCdUp, LineCdA, LineCdB, LineLs, LineDirA, LineDirB, Line100F}

LineAlphabet ==
    {LineCdRoot, LineCdUp, LineCdA, LineCdB, LineLs,
     LineDirA, LineDirB, LineFileSmall, LineFileBig, LineBlank,
     LineDollar, LineCdNoArg, LineRm, LineDirNoName, LineBadSize,
     LineLsExtra, LineDirExtra, LinePlusSize, LineNegSize, LineNoSize,
     LineCdExtra}

TokDollar == <<"$">>
TokLs == <<"l", "s">>
TokCd == <<"c", "d">>
TokDir == <<"d", "i", "r">>
TokSlash == <<"/">>
TokDotDot == <<".", ".">>

\* ------------------------------------------------------------- parser
\* Outcome of one iteration of the `for line in s.lines()` loop.
Ok(ns, stack) == [ok |-> TRUE, err |-> "", nodes |-> ns, dir_stack |-> stack]

Panic(msg, ns, stack) == [ok |-> FALSE, err |-> msg, nodes |-> ns, dir_stack |-> stack]

\* Mutant of PushChildInTopFsNode: the new node is pushed into the directory
\* below the top of the stack as well, so it is shared by two parents.
PushChildInTopFsNodeShared(ns, stack, cell) ==
    IF Len(stack) = 0 THEN Panic("unexpected empty stack", ns, stack)
    ELSE IF ns[stack[Len(stack)]].kind = "File"
    THEN Panic("cannot push child to a file", ns, stack)
    ELSE LET pushed == PushChild(Append(ns, cell), stack[Len(stack)], Len(ns) + 1)
         IN  Ok(IF Len(stack) >= 2
                THEN PushChild(pushed, stack[Len(stack) - 1], Len(ns) + 1)
                ELSE pushed,
                stack)

\* Mutant of PushChildInTopFsNode: the new node goes into the directory at
\* the bottom of the stack (stack.first()) instead of the one on top.
PushChildInBottomFsNode(ns, stack, cell) ==
    IF Len(stack) = 0 THEN Panic("unexpected empty stack", ns, stack)
    ELSE IF ns[stack[1]].kind = "File"
    THEN Panic("cannot push child to a file", ns, stack)
    ELSE Ok(PushChild(Append(ns, cell), stack[1], Len(ns) + 1), stack)

\* Mutant of PushChildInTopFsNode: with an empty stack the new node goes
\* into the root.
PushChildInTopOrRoot(ns, stack, cell) ==
    IF Len(stack) = 0 THEN Ok(PushChild(Append(ns, cell), Root, Len(ns) + 1), stack)
    ELSE IF ns[stack[Len(stack)]].kind = "File"
    THEN Panic("cannot push child to a file", ns, stack)
    ELSE Ok(PushChild(Append(ns, cell), stack[Len(stack)], Len(ns) + 1), stack)

\* push_child_in_top_fs_node(&dir_stack, node), `cell` being the freshly
\* allocated FsNode: stack.last().expect(..).borrow_mut().push_child(node).
PushChildInTopFsNode(ns, stack, cell) ==
    IF Len(stack) = 0 THEN Panic("unexpected empty stack", ns, stack)
    ELSE IF ns[stack[Len(stack)]].kind = "File"
    THEN Panic("cannot push child to a file", ns, stack)
    ELSE Ok(PushChild(Append(ns, cell), stack[Len(stack)], Len(ns) + 1), stack)

\* Mutant of CdCommand: `cd NAME` looks NAME up under the root instead of
\* under the directory on top of the stack.
CdCommandFromRoot(ns, stack, toks) ==
    IF Len(toks) < 3 THEN Panic("missing argument to cd command", ns, stack)
    ELSE IF toks[3] = TokSlash THEN Ok(ns, <<Root>>)
    ELSE IF toks[3] = TokDotDot
    THEN IF Len(stack) = 0
         THEN Panic("cd ..: unexpected empty dir stack", ns, stack)
         ELSE Ok(ns, SubSeq(stack, 1, Len(stack) - 1))
    ELSE IF Len(stack) = 0 THEN Panic("unexpected empty stack", ns, stack)
    ELSE LET r == GetChildByName(ns, Root, toks[3])
         IN  IF r.ok THEN Ok(ns, Append(stack, r.node)) ELSE Panic(r.err, ns, stack)

\* Mutant of CdCommand: `cd ..` pops without the expect, so on an empty stack
\* it is a no-op instead of a panic.
CdCommandLenientPop(ns, stack, toks) ==
    IF Len(toks) < 3 THEN Panic("missing argument to cd command", ns, stack)
    ELSE IF toks[3] = TokSlash THEN Ok(ns, <<Root>>)
    ELSE IF toks[3] = TokDotDot
    THEN IF Len(stack) = 0
         THEN Ok(ns, stack)
         ELSE Ok(ns, SubSeq(stack, 1, Len(stack) - 1))
    ELSE IF Len(stack) = 0 THEN Panic("unexpected empty stack", ns, stack)
    ELSE LET r == GetChildByName(ns, stack[Len(stack)], toks[3])
         IN  IF r.ok THEN Ok(ns, Append(stack, r.node)) ELSE Panic(r.err, ns, stack)

\* Mutant of CdCommand: `cd /` pushes the root without clearing the stack.
CdCommandNoClear(ns, stack, toks) ==
    IF Len(toks) < 3 THEN Panic("missing argument to cd command", ns, stack)
    ELSE IF toks[3] = TokSlash THEN Ok(ns, Append(stack, Root))
    ELSE IF toks[3] = TokDotDot
    THEN IF Len(stack) = 0
         THEN Panic("cd ..: unexpected empty dir stack", ns, stack)
         ELSE Ok(ns, SubSeq(stack, 1, Len(stack) - 1))
    ELSE IF Len(stack) = 0 THEN Panic("unexpected empty stack", ns, stack)
    ELSE LET r == GetChildByName(ns, stack[Len(stack)], toks[3])
         IN  IF r.ok THEN Ok(ns, Append(stack, r.node)) ELSE Panic(r.err, ns, stack)

\* The `Some("cd")` arm: match on the third token.
CdCommand(ns, stack, toks) ==
    IF Len(toks) < 3 THEN Panic("missing argument to cd command", ns, stack)
    ELSE IF toks[3] = TokSlash THEN Ok(ns, <<Root>>)
    ELSE IF toks[3] = TokDotDot
    THEN IF Len(stack) = 0
         THEN Panic("cd ..: unexpected empty dir stack", ns, stack)
         ELSE Ok(ns, SubSeq(stack, 1, Len(stack) - 1))
    ELSE IF Len(stack) = 0 THEN Panic("unexpected empty stack", ns, stack)
    ELSE LET r == GetChildByName(ns, stack[Len(stack)], toks[3])
         IN  IF r.ok THEN Ok(ns, Append(stack, r.node)) ELSE Panic(r.err, ns, stack)

\* The `Some(ls_output)` arm: the second token is the name; the node is built
\* (and the size parsed) before push_child_in_top_fs_node looks at the stack.
LsOutput(ns, stack, toks) ==
    IF Len(toks) < 2 THEN Panic("unexpected ls output", ns, stack)
    ELSE IF toks[1] = TokDir
    THEN PushChildInTopFsNode(ns, stack, Directory(toks[2], <<>>))
    ELSE LET size == ParseUsize(toks[1])
         IN  IF size < 0 THEN Panic("unexpected file size format", ns, stack)
             ELSE PushChildInTopFsNode(ns, stack, File(toks[2], size))

\* Mutant of ProcessLine: `$ ls` empties the children of the current
\* directory, to be filled again by the listing lines that follow.
ProcessLineLsClears(ns, stack, line) ==
    LET toks == Split(line)
    IN  IF toks[1] = TokDollar
        THEN IF Len(toks) >= 2 /\ toks[2] = TokLs
             THEN IF Len(stack) = 0 THEN Ok(ns, stack)
                  ELSE Ok([ns EXCEPT ![stack[Len(stack)]].children = <<>>], stack)
             ELSE IF Len(toks) >= 2 /\ toks[2] = TokCd THEN CdCommand(ns, stack, toks)
             ELSE Panic("unexpected shell command", ns, stack)
        ELSE LsOutput(ns, stack, toks)

\* The body of the loop of parse_shell_session_output for one line.
ProcessLine(ns, stack, line) ==
    LET toks == Split(line)
    IN  IF toks[1] = TokDollar
        THEN IF Len(toks) >= 2 /\ toks[2] = TokLs THEN Ok(ns, stack)
             ELSE IF Len(toks) >= 2 /\ toks[2] = TokCd THEN CdCommand(ns, stack, toks)
             ELSE Panic("unexpected shell command", ns, stack)
        ELSE LsOutput(ns, stack, toks)

\* parse_shell_session_output(s) for s given as its sequence of lines: the
\* loop over s.lines() from a fresh root, stopped by the first panic.
RECURSIVE ParseLines(_, _, _, _)
ParseLines(ns, stack, lines, k) ==
    IF k > Len(lines) THEN Ok(ns, stack)
    ELSE LET r == ProcessLine(ns, stack, lines[k])
         IN  IF r.ok THEN ParseLines(r.nodes, r.dir_stack, lines, k + 1) ELSE r

ParseShellSessionOutput(lines) ==
    ParseLines(<<Directory(TokSlash, <<>>)>>, <<>>, lines, 1)

\* Before into_iter: no FsIterator exists.
NoIter == [dir_stack |-> <<>>, current_dir |-> None, current_child_index |-> 0]

\* day07's main before its first statement has run.
Day07Init ==
    /\ pc = "parsing"
    /\ err = ""
    /\ nodes = <<Directory(TokSlash, <<>>)>>
    /\ dir_stack = <<>>
    /\ iter = NoIter
    /\ ret = -1
    /\ yielded = <<>>
    /\ q1 = -1
    /\ q2 = -1

\* No second iterator has been taken.
Iter2Idle == iter2 = NoIter /\ ret2 = -1 /\ yielded2 = <<>>

\* The day01 binary is not running: no ledger, nothing computed.
Day01Idle ==
    /\ ledger = <<>>
    /\ consumed = 0
    /\ calories = <<>>
    /\ cal_ret = <<-1>>
    /\ stage1 = -1
    /\ n_largest1 = -1

\* The day06 binary is not running: no stream, no call made.
Day06Idle == stream = <<>> /\ marker = <<>>

Init == Day07Init /\ Iter2Idle /\ Day01Idle /\ Day06Idle

\* One line of a transcript over the given alphabet is consumed.
ParseLineFrom(alphabet) ==
    /\ pc = "parsing"
    /\ \E line \in alphabet :
         LET r == ProcessLine(nodes, dir_stack, line)
         IN  /\ Len(r.nodes) <= MaxNodes
             /\ IF r.ok
                THEN /\ nodes' = r.nodes
                     /\ dir_stack' = r.dir_stack
                     /\ UNCHANGED <<pc, err>>
                ELSE /\ pc' = "panicked"
                     /\ err' = r.err
                     /\ UNCHANGED <<nodes, dir_stack>>
    /\ UNCHANGED <<iter, ret, yielded, q1, q2>>
    /\ UNCHANGED <<iter2vars, day01vars, day06vars>>

\* One line of the transcript is consumed.
ParseLine == ParseLineFrom(LineAlphabet)

\* The transcript is exhausted: `Filesystem { root }` is returned and the
\* parser's dir_stack is dropped.
ParseEnd ==
    /\ pc = "parsing"
    /\ pc' = "parsed"
    /\ dir_stack' = <<>>
    /\ UNCHANGED <<err, nodes, iter, ret, yielded, q1, q2>>
    /\ UNCHANGED <<iter2vars, day01vars, day06vars>>

\* ------------------------------------------------------------- FsIterator
\* Mutant of IntoIter: the child index starts at 1 instead of 0.
IntoIterSkipFirst(root) ==
    [dir_stack |-> <<>>, current_dir |-> root, current_child_index |-> 1]

\* <&Filesystem as IntoIterator>::into_iter
IntoIter(root) ==
    [dir_stack |-> <<>>, current_dir |-> root, current_child_index |-> 0]

\* Mutant of PopExhausted: an `if` in place of the `while`: one frame at most
\* is popped, and None is returned when the directory popped to is exhausted
\* as well.
PopExhaustedOnce(ns, it) ==
    IF ns[it.current_dir].kind = "File"
    THEN [iter |-> it, end |-> FALSE, err |-> "internal error: expected dir, got file"]
    ELSE IF it.current_child_index >= Len(ns[it.current_dir].children)
    THEN IF Len(it.dir_stack) = 0
         THEN [iter |-> it, end |-> TRUE, err |-> ""]
         ELSE LET frame == it.dir_stack[Len(it.dir_stack)]
                  popped == [dir_stack |-> SubSeq(it.dir_stack, 1, Len(it.dir_stack) - 1),
                             current_dir |-> frame[1],
                             current_child_index |-> frame[2]]
              IN  [iter |-> popped,
                   end |-> frame[2] >= Len(ns[frame[1]].children),
                   err |-> ""]
    ELSE [iter |-> it, end |-> FALSE, err |-> ""]

\* Mutant of PopExhausted: at the end of the iteration the child index is
\* set back to 0, so the iterator starts over after it has returned None.
RECURSIVE PopExhaustedRewinds(_, _)
PopExhaustedRewinds(ns, it) ==
    IF ns[it.current_dir].kind = "File"
    THEN [iter |-> it, end |-> FALSE, err |-> "internal error: expected dir, got file"]
    ELSE IF it.current_child_index >= Len(ns[it.current_dir].children)
    THEN IF Len(it.dir_stack) = 0
         THEN [iter |-> [it EXCEPT !.current_child_index = 0], end |-> TRUE, err |-> ""]
         ELSE LET frame == it.dir_stack[Len(it.dir_stack)]
              IN  PopExhaustedRewinds(ns,
                      [dir_stack |-> SubSeq(it.dir_stack, 1, Len(it.dir_stack) - 1),
                       current_dir |-> frame[1],
                       current_child_index |-> frame[2]])
    ELSE [iter |-> it, end |-> FALSE, err |-> ""]

\* The `while self.current_child_index >= children.len()` loop of next():
\* pops frames until the current directory has an unvisited child; `end` is
\* the `None => return None` exit, taken with the iterator left as it is.
RECURSIVE PopExhausted(_, _)
PopExhausted(ns, it) ==
    IF ns[it.current_dir].kind = "File"
    THEN [iter |-> it, end |-> FALSE, err |-> "internal error: expected dir, got file"]
    ELSE IF it.current_child_index >= Len(ns[it.current_dir].children)
    THEN IF Len(it.dir_stack) = 0
         THEN [iter |-> it, end |-> TRUE, err |-> ""]
         ELSE LET frame == it.dir_stack[Len(it.dir_stack)]
              IN  PopExhausted(ns,
                      [dir_stack |-> SubSeq(it.dir_stack, 1, Len(it.dir_stack) - 1),
                       current_dir |-> frame[1],
                       current_child_index |-> frame[2]])
    ELSE [iter |-> it, end |-> FALSE, err |-> ""]

\* Mutant of YieldChild: descends into a yielded directory without pushing
\* the frame of the directory it leaves.
YieldChildNoPush(ns, it) ==
    LET child == ns[it.current_dir].children[it.current_child_index + 1]
        advanced == it.current_child_index + 1
    IN  IF ns[child].kind = "Directory"
        THEN [iter |-> [dir_stack |-> it.dir_stack,
                        current_dir |-> child,
                        current_child_index |-> 0],
              ret |-> child, err |-> ""]
        ELSE [iter |-> [it EXCEPT !.current_child_index = advanced],
              ret |-> child, err |-> ""]

\* Mutant of YieldChild: the children are indexed from the end of the Vec.
YieldChildReversed(ns, it) ==
    LET cs == ns[it.current_dir].children
        child == cs[Len(cs) - it.current_child_index]
        advanced == it.current_child_index + 1
    IN  IF ns[child].kind = "Directory"
        THEN [iter |-> [dir_stack |-> Append(it.dir_stack, <<it.current_dir, advanced>>),
                        current_dir |-> child,
                        current_child_index |-> 0],
              ret |-> child, err |-> ""]
        ELSE [iter |-> [it EXCEPT !.current_child_index = advanced],
              ret |-> child, err |-> ""]

\* Mutant of YieldChild: the frame pushed when descending holds the index of
\* the directory just entered instead of the index after it.
YieldChildStaleFrame(ns, it) ==
    LET child == ns[it.current_dir].children[it.current_child_index + 1]
        advanced == it.current_child_index + 1
    IN  IF ns[child].kind = "Directory"
        THEN [iter |-> [dir_stack |-> Append(it.dir_stack,
                                          <<it.current_dir, it.current_child_index>>),
                        current_dir |-> child,
                        current_child_index |-> 0],
              ret |-> child, err |-> ""]
        ELSE [iter |-> [it EXCEPT !.current_child_index = advanced],
              ret |-> child, err |-> ""]

\* Mutant of YieldChild: the frame pushed when descending holds the index
\* after the next sibling, so that sibling is skipped on the way back.
YieldChildSkipSibling(ns, it) ==
    LET child == ns[it.current_dir].children[it.current_child_index + 1]
        advanced == it.current_child_index + 1
    IN  IF ns[child].kind = "Directory"
        THEN [iter |-> [dir_stack |-> Append(it.dir_stack, <<it.current_dir, advanced + 1>>),
                        current_dir |-> child,
                        current_child_index |-> 0],
              ret |-> child, err |-> ""]
        ELSE [iter |-> [it EXCEPT !.current_child_index = advanced],
              ret |-> child, err |-> ""]

\* Mutant of YieldChild: the frame pushed when descending names the
\* directory entered instead of the directory left.
YieldChildPushChild(ns, it) ==
    LET child == ns[it.current_dir].children[it.current_child_index + 1]
        advanced == it.current_child_index + 1
    IN  IF ns[child].kind = "Directory"
        THEN [iter |-> [dir_stack |-> Append(it.dir_stack, <<child, advanced>>),
                        current_dir |-> child,
                        current_child_index |-> 0],
              ret |-> child, err |-> ""]
        ELSE [iter |-> [it EXCEPT !.current_child_index = advanced],
              ret |-> child, err |-> ""]

\* Mutant of YieldChild: the match on the child is dropped, so next()
\* descends into every child it yields, files included.
YieldChildDescendsFiles(ns, it) ==
    LET child == ns[it.current_dir].children[it.current_child_index + 1]
        advanced == it.current_child_index + 1
    IN  [iter |-> [dir_stack |-> Append(it.dir_stack, <<it.current_dir, advanced>>),
                   current_dir |-> child,
                   current_child_index |-> 0],
         ret |-> child, err |-> ""]

\* What next() does once the loop has found a directory with an unvisited
\* child: take children[current_child_index], advance the index, and when the
\* child is a directory push (current_dir, advanced index) and descend.
YieldChild(ns, it) ==
    LET child == ns[it.current_dir].children[it.current_child_index + 1]
        advanced == it.current_child_index + 1
    IN  IF ns[child].kind = "Directory"
        THEN [iter |-> [dir_stack |-> Append(it.dir_stack, <<it.current_dir, advanced>>),
                        current_dir |-> child,
                        current_child_index |-> 0],
              ret |-> child, err |-> ""]
        ELSE [iter |-> [it EXCEPT !.current_child_index = advanced],
              ret |-> child, err |-> ""]

\* FsIterator::next: the iterator afterwards and the Option returned.
FsIteratorNext(ns, it) ==
    LET p == PopExhausted(ns, it)
    IN  IF p.err # "" \/ p.end
        THEN [iter |-> p.iter, ret |-> None, err |-> p.err]
        ELSE YieldChild(ns, p.iter)

\* A whole `for`-style consumption of an iterator: every Some(..) until the
\* first None.
RECURSIVE Collect(_, _)
Collect(ns, it) ==
    LET r == FsIteratorNext(ns, it)
    IN  IF r.ret = None THEN <<>> ELSE <<r.ret>> \o Collect(ns, r.iter)

\* ------------------------------------------------------------- main
\* `.filter_map(..)` of both queries: the total size of each yielded node that
\* is a Directory, in yield order.
RECURSIVE FilterMapDirSizes(_, _, _)
FilterMapDirSizes(ns, ys, i) ==
    IF i > Len(ys) THEN <<>>
    ELSE IF ns[ys[i]].kind = "File" THEN FilterMapDirSizes(ns, ys, i + 1)
    ELSE <<GetTotalSize(ns, ys[i])>> \o FilterMapDirSizes(ns, ys, i + 1)

DirSizes(ns) == FilterMapDirSizes(ns, Collect(ns, IntoIter(Root)), 1)

\* `.filter(|size| *size <= 100_000).sum::<usize>()`
RECURSIVE SumBelowThreshold(_, _)
SumBelowThreshold(sizes, i) ==
    IF i > Len(sizes) THEN 0
    ELSE (IF sizes[i] <= Threshold THEN sizes[i] ELSE 0) + SumBelowThreshold(sizes, i + 1)

\* sum_size_dirs_below_100_000
SumSizeDirsBelow(ns) == SumBelowThreshold(DirSizes(ns), 1)

\* The closure `|size| *size <= 70_000_000 - fs.root.borrow().get_total_size()`
\* when the subtraction does not panic.  With used > 70_000_000 and overflow
\* checks off the difference wraps to 2^64 - (used - 70_000_000), which every
\* size the model can build is below.
FitsFreeSpace(size, used) ==
    IF used <= Capacity THEN size <= Capacity - used ELSE TRUE

\* `.max()` of the sizes that pass the filter, from position i on; -1 is None.
RECURSIVE MaxFitting(_, _, _)
MaxFitting(sizes, used, i) ==
    IF i > Len(sizes) THEN -1
    ELSE LET rest == MaxFitting(sizes, used, i + 1)
         IN  IF FitsFreeSpace(sizes[i], used) /\ sizes[i] > rest THEN sizes[i] ELSE rest

\* size_smallest_dir_for_update.  The filter closure runs once per yielded
\* directory, so the subtraction is evaluated only when there is one; with
\* overflow checks on (a debug build) it panics when used > 70_000_000.
SizeSmallestDirForUpdate(ns, overflow_checks) ==
    LET sizes == DirSizes(ns)
        used == GetTotalSize(ns, Root)
    IN  IF Len(sizes) > 0 /\ used > Capacity /\ overflow_checks
        THEN [ok |-> FALSE, value |-> -1, err |-> "attempt to subtract with overflow"]
        ELSE LET m == MaxFitting(sizes, used, 1)
             IN  IF m < 0
                 THEN [ok |-> FALSE, value |-> -1, err |-> "at least one value"]
                 ELSE [ok |-> TRUE, value |-> m, err |-> ""]

\* main, first query.
MainQuery1 ==
    /\ pc = "parsed"
    /\ q1' = SumSizeDirsBelow(nodes)
    /\ pc' = "q1done"
    /\ UNCHANGED <<err, nodes, dir_stack, iter, ret, yielded, q2>>
    /\ UNCHANGED <<iter2vars, day01vars, day06vars>>

\* main, second query; the build decides whether arithmetic overflow panics.
MainQuery2 ==
    /\ pc = "q1done"
    /\ \E overflow_checks \in BOOLEAN :
         LET r == SizeSmallestDirForUpdate(nodes, overflow_checks)
         IN  IF r.ok
             THEN /\ q2' = r.value
                  /\ pc' = "q2done"
                  /\ UNCHANGED err
             ELSE /\ pc' = "panicked"
                  /\ err' = r.err
                  /\ UNCHANGED q2
    /\ UNCHANGED <<nodes, dir_stack, iter, ret, yielded, q1>>
    /\ UNCHANGED <<iter2vars, day01vars, day06vars>>

\* parse_shell_session_output has returned and nothing has panicked.
Reading == pc \in {"parsed", "q1done", "q2done"}

\* A caller (the tests) takes a fresh iterator over the parsed filesystem.
CallIntoIter ==
    /\ Reading
    /\ iter' = IntoIter(Root)
    /\ ret' = -1
    /\ yielded' = <<>>
    /\ UNCHANGED <<pc, err, nodes, dir_stack, q1, q2>>
    /\ UNCHANGED <<iter2vars, day01vars, day06vars>>

\* Mutant of CallNext: next() takes the children Vec out of the directory it
\* is reading (mem::take through borrow_mut) once it has yielded the last one.
CallNextDraining ==
    /\ Reading
    /\ iter.current_dir # None
    /\ LET r == FsIteratorNext(nodes, iter)
       IN  /\ iter' = r.iter
           /\ ret' = r.ret
           /\ yielded' = IF r.ret = None THEN yielded ELSE Append(yielded, r.ret)
           /\ nodes' = IF r.ret = None
                       THEN [nodes EXCEPT ![r.iter.current_dir].children = <<>>]
                       ELSE nodes
           /\ UNCHANGED <<pc, err>>
    /\ UNCHANGED <<dir_stack, q1, q2>>
    /\ UNCHANGED <<iter2vars, day01vars, day06vars>>

\* The caller pulls one item: iter.next().
CallNext ==
    /\ Reading
    /\ iter.current_dir # None
    /\ LET r == FsIteratorNext(nodes, iter)
       IN  /\ iter' = r.iter
           /\ ret' = r.ret
           /\ yielded' = IF r.ret = None THEN yielded ELSE Append(yielded, r.ret)
           /\ IF r.err = ""
              THEN UNCHANGED <<pc, err>>
              ELSE pc' = "panicked" /\ err' = r.err
    /\ UNCHANGED <<nodes, dir_stack, q1, q2>>
    /\ UNCHANGED <<iter2vars, day01vars, day06vars>>

Next ==
    \/ ParseLine
    \/ ParseEnd
    \/ MainQuery1
    \/ MainQuery2
    \/ CallIntoIter
    \/ CallNext

Spec == Init /\ [][Next]_vars

\* The filesystem of tests::filesystem_iterator_dirs_and_files, as an arena
\* (cell 1 is the root).
DirsAndFilesFs ==
    <<Directory(<<"/">>, <<2, 8, 9, 10>>),
      Directory(<<"a">>, <<3, 5, 6, 7>>),
      Directory(<<"e">>, <<4>>),
      File(<<"i">>, 584),
      File(<<"f">>, 29116),
      File(<<"g">>, 2557),
      File(<<"h", ".", "l", "s", "t">>, 62596),
      File(<<"b", ".", "t", "x", "t">>, 14848514),
      File(<<"c", ".", "d", "a", "t">>, 8504156),
      Directory(<<"d">>, <<11, 12, 13, 14>>),
      File(<<"j">>, 4060174),
      File(<<"d", ".", "l", "o", "g">>, 8033020),
      File(<<"d", ".", "e", "x", "t">>, 5626152),
      File(<<"k">>, 7214296)>>

\* ------------------------------------------------------------- tree shape
\* The proper descendants of cell n.
RECURSIVE Desc(_, _)
Desc(ns, n) ==
    LET cs == ns[n].children
    IN  UNION {{cs[i]} \cup Desc(ns, cs[i]) : i \in 1..Len(cs)}

\* The nodes of the tree: the root and everything below it.
TreeNodes(ns) == {Root} \cup Desc(ns, Root)

DirNodes(ns) == {n \in TreeNodes(ns) : ns[n].kind = "Directory"}

Occurrences(seq, x) == Cardinality({i \in 1..Len(seq) : seq[i] = x})

RECURSIVE SumOverSet(_, _)
SumOverSet(ns, S) ==
    IF S = {} THEN 0
    ELSE LET x == CHOOSE y \in S : TRUE
         IN  GetTotalSize(ns, x) + SumOverSet(ns, S \ {x})

MinOf(S) == CHOOSE x \in S : \A y \in S : x <= y

\* An iterator exists and its last next() returned None.
Exhausted == iter.current_dir # None /\ ret = None

\* ------------------------------------------------------------- claims

\* C1 as stated: a full traversal of a tree with K nodes yields exactly K
\* items, every node of the tree (the root included) exactly once.
C1_FullTraversalYieldsAllK ==
    Exhausted =>
        /\ Len(yielded) = Cardinality(TreeNodes(nodes))
        /\ \A n \in TreeNodes(nodes) : Occurrences(yielded, n) = 1

\* C1 amended: a full traversal of a tree with K nodes yields exactly K - 1
\* items, every node other than the root exactly once and the root never; and
\* no node is yielded twice at any point of a traversal.
C1_FullTraversalYieldsAllButRoot ==
    iter.current_dir # None =>
        /\ \A n \in TreeNodes(nodes) : Occurrences(yielded, n) <= 1
        /\ Exhausted =>
              /\ Len(yielded) = Cardinality(TreeNodes(nodes)) - 1
              /\ \A n \in TreeNodes(nodes) \ {Root} : Occurrences(yielded, n) = 1
              /\ Occurrences(yielded, Root) = 0

\* C1 witness: a traversal of a tree with a non-empty subdirectory has ended.
C1_Witness ==
    /\ Exhausted
    /\ Len(yielded) >= 3
    /\ \E i \in 1..Len(yielded) : nodes[yielded[i]].children # <<>>

\* C2: the traversal is pre-order: a directory is yielded before each of its
\* descendants, the children of a directory are yielded in child order, and
\* the descendants of a yielded node form one contiguous block right after it
\* (nothing outside the subtree is yielded before the subtree is finished).
C2_PreOrder ==
    iter.current_dir # None =>
        /\ \A i \in 1..Len(yielded) : \A j \in 1..Len(yielded) :
              yielded[j] \in Desc(nodes, yielded[i]) => i < j
        /\ \A d \in DirNodes(nodes) :
              \A a \in 1..Len(nodes[d].children) : \A b \in 1..Len(nodes[d].children) :
                 a < b =>
                    \A j \in 1..Len(yielded) :
                       yielded[j] = nodes[d].children[b] =>
                          \E i \in 1..(j - 1) : yielded[i] = nodes[d].children[a]
        /\ \A i \in 1..Len(yielded) : \A j \in (i + 1)..Len(yielded) :
              yielded[j] \notin Desc(nodes, yielded[i]) =>
                 /\ \A x \in Desc(nodes, yielded[i]) :
                       \E k \in (i + 1)..(j - 1) : yielded[k] = x
                 /\ \A k \in j..Len(yielded) : yielded[k] \notin Desc(nodes, yielded[i])

\* C2 witness: a finished traversal of a root whose first child is a
\* non-empty directory followed by a sibling.
C2_Witness ==
    /\ Exhausted
    /\ Len(nodes[Root].children) >= 2
    /\ nodes[nodes[Root].children[1]].kind = "Directory"
    /\ nodes[nodes[Root].children[1]].children # <<>>

\* C3: what a traversal yields are exactly the proper descendants of the
\* root, never the root; on a root without children the first next() is
\* None; on a root with n file children the n files come out in child order
\* and the call after them returns None.
C3_YieldsProperDescendantsOfRoot ==
    iter.current_dir # None =>
        LET cs == nodes[Root].children
            all_files == \A i \in 1..Len(cs) : nodes[cs[i]].kind = "File"
        IN  /\ \A i \in 1..Len(yielded) : yielded[i] \in Desc(nodes, Root) \ {Root}
            /\ Exhausted => {yielded[i] : i \in 1..Len(yielded)} = Desc(nodes, Root)
            /\ (cs = <<>> /\ ret # -1) => (ret = None /\ yielded = <<>>)
            /\ all_files =>
                  /\ Len(yielded) <= Len(cs)
                  /\ yielded = SubSeq(cs, 1, Len(yielded))
                  /\ Exhausted => yielded = cs
                  /\ yielded = cs => FsIteratorNext(nodes, iter).ret = None

\* C3 witness: a finished traversal of a root holding two or more files only.
C3_Witness ==
    /\ Exhausted
    /\ Len(nodes[Root].children) >= 2
    /\ \A i \in 1..Len(nodes[Root].children) : nodes[nodes[Root].children[i]].kind = "File"

\* C4: size additivity: get_total_size of a file is its stored size, of a
\* directory the sum of get_total_size over its direct children (0 when it
\* has none); the tree of the test has root total 48381165.
C4_SizeAdditivity ==
    /\ \A n \in 1..Len(nodes) :
          LET cs == nodes[n].children
              child_total == [i \in 1..Len(cs) |-> GetTotalSize(nodes, cs[i])]
              partial[k \in 0..Len(cs)] ==
                  IF k = 0 THEN 0 ELSE partial[k - 1] + child_total[k]
          IN  IF nodes[n].kind = "File"
              THEN GetTotalSize(nodes, n) = nodes[n].size
              ELSE GetTotalSize(nodes, n) = partial[Len(cs)]
    /\ GetTotalSize(DirsAndFilesFs, Root) = 48381165

\* C4 witness: a directory with two children of which one is a non-empty
\* directory.
C4_Witness ==
    \E n \in 1..Len(nodes) :
        /\ Len(nodes[n].children) >= 2
        /\ \E i \in 1..Len(nodes[n].children) :
              nodes[nodes[n].children[i]].children # <<>>

\* C5 as stated: the threshold sum is the sum of total_size over every
\* directory of the tree, the root included, whose total size is <= 100000.
C5_ThresholdSumCountsRoot ==
    q1 >= 0 =>
        q1 = SumOverSet(nodes,
                 {d \in DirNodes(nodes) : GetTotalSize(nodes, d) <= Threshold})

\* The free-space targets F the second query is compared against.
FreeTargets == {0, 30000000, 70000000}

\* C6 as stated: for some free-space target F, the second query returns the
\* minimum total_size among the directories (root included) whose total size
\* is >= max(0, F - (C - used)).
C6_MinimalSufficientDirectory ==
    pc = "q2done" =>
        \E F \in FreeTargets :
            LET used == GetTotalSize(nodes, Root)
                need == IF F - (Capacity - used) > 0 THEN F - (Capacity - used) ELSE 0
                cands == {GetTotalSize(nodes, d) : d \in
                             {e \in DirNodes(nodes) : GetTotalSize(nodes, e) >= need}}
            IN  cands # {} /\ q2 = MinOf(cands)

\* C7 as stated: the second query always has a candidate and never fails
\* with 'at least one value'.
C7_AlwaysACandidate == err # "at least one value"

\* C8: root upper bound: every directory's total size is at most the root's.
C8_RootUpperBound ==
    \A d \in DirNodes(nodes) : GetTotalSize(nodes, d) <= GetTotalSize(nodes, Root)

\* C8 witness: a subdirectory with a positive total strictly below the root's.
C8_Witness ==
    \E d \in DirNodes(nodes) \ {Root} :
        /\ GetTotalSize(nodes, d) > 0
        /\ GetTotalSize(nodes, d) < GetTotalSize(nodes, Root)

\* C9: reading never changes the tree: once parsing has finished, no step
\* (into_iter, next(), either query and the get_total_size calls they make)
\* changes any cell, and get_total_size of every node is the same after the
\* step as before it.
C9_ReadingNeverChangesTree ==
    [][Reading =>
          /\ nodes' = nodes
          /\ \A n \in 1..Len(nodes) : GetTotalSize(nodes', n) = GetTotalSize(nodes, n)]_vars

\* C9 witness: both queries have run and a traversal of a tree with several
\* nodes has run to its end.
C9_Witness ==
    /\ pc = "q2done"
    /\ Exhausted
    /\ Len(yielded) >= 2

\* Positions of the child directories of cell n that are named `name`.
ChildDirsNamed(ns, n, name) ==
    {i \in 1..Len(ns[n].children) :
        /\ ns[ns[n].children[i]].kind = "Directory"
        /\ ns[ns[n].children[i]].name = name}

\* C10: in every parser state with a current directory, a `$ cd NAME` line
\* pushes a child directory named NAME of the top-of-stack directory and
\* changes nothing else, and fails with 'child not found' when the current
\* directory has no child directory of that name (none at all, or a file).
C10_CdName ==
    (pc = "parsing" /\ Len(dir_stack) > 0) =>
        \A cd \in {<<LineCdA, <<"a">>>>, <<LineCdB, <<"b">>>>} :
            LET top_dir == dir_stack[Len(dir_stack)]
                at == ChildDirsNamed(nodes, top_dir, cd[2])
                r == ProcessLine(nodes, dir_stack, cd[1])
            IN  IF at # {}
                THEN /\ r.ok
                     /\ r.nodes = nodes
                     /\ \E i \in at :
                           r.dir_stack = Append(dir_stack, nodes[top_dir].children[i])
                ELSE /\ ~r.ok
                     /\ r.err = "child not found"
                     /\ r.nodes = nodes
                     /\ r.dir_stack = dir_stack

\* C10 witness: a `cd NAME` has been taken, and the directory it entered
\* holds a file named a and no directory named a.
C10_Witness ==
    /\ pc = "parsing"
    /\ Len(dir_stack) >= 2
    /\ ChildDirsNamed(nodes, dir_stack[Len(dir_stack)], <<"a">>) = {}
    /\ \E i \in 1..Len(nodes[dir_stack[Len(dir_stack)]].children) :
          /\ nodes[nodes[dir_stack[Len(dir_stack)]].children[i]].kind = "File"
          /\ nodes[nodes[dir_stack[Len(dir_stack)]].children[i]].name = <<"a">>

\* C11: a `$ cd ..` line removes exactly the top entry of the cursor stack
\* when the stack is non-empty and changes nothing else, and panics with
\* 'cd ..: unexpected empty dir stack' when the stack is empty (as it is for
\* the first line of a transcript).
C11_CdUp ==
    pc = "parsing" =>
        LET r == ProcessLine(nodes, dir_stack, LineCdUp)
        IN  IF Len(dir_stack) > 0
            THEN /\ r.ok
                 /\ r.nodes = nodes
                 /\ Len(r.dir_stack) = Len(dir_stack) - 1
                 /\ \A i \in 1..Len(r.dir_stack) : r.dir_stack[i] = dir_stack[i]
            ELSE /\ ~r.ok
                 /\ r.err = "cd ..: unexpected empty dir stack"
                 /\ r.nodes = nodes
                 /\ r.dir_stack = dir_stack

\* C11 witness: the parser stopped on a `cd ..` issued with an empty stack
\* after an earlier `cd ..` had popped the root off a tree with nodes in it.
C11_Witness ==
    /\ pc = "panicked"
    /\ err = "cd ..: unexpected empty dir stack"
    /\ dir_stack = <<>>
    /\ Len(nodes) > 1

\* C12: a `$ cd /` line, from any parser state (empty stack or any depth),
\* leaves the cursor stack holding exactly the root and never fails; the tree
\* is not touched.
C12_CdRoot ==
    pc = "parsing" =>
        LET r == ProcessLine(nodes, dir_stack, LineCdRoot)
        IN  /\ r.ok
            /\ r.dir_stack = <<Root>>
            /\ nodes[r.dir_stack[1]].name = <<"/">>
            /\ r.nodes = nodes

\* C12 witness: the stack holds exactly the root (only `cd /` ever puts it
\* there) in a parse that has also been one level down and filled a
\* subdirectory.
C12_Witness ==
    /\ pc = "parsing"
    /\ dir_stack = <<Root>>
    /\ \E i \in 1..Len(nodes[Root].children) :
          nodes[nodes[Root].children[i]].children # <<>>

\* C13: with a current directory, a listing line `dir NAME` creates one new
\* empty directory named NAME and `SIZE NAME` one new file named NAME of size
\* SIZE; the new node becomes the last child of the top-of-stack directory
\* and nothing else changes, so every directory's children stand in the order
\* in which their listing lines were read (cells are numbered in creation
\* order, so each children sequence is increasing).
C13_ListingAppends ==
    /\ \A d \in 1..Len(nodes) :
          \A i \in 1..Len(nodes[d].children) : \A j \in 1..Len(nodes[d].children) :
             i < j => nodes[d].children[i] < nodes[d].children[j]
    /\ (pc = "parsing" /\ Len(dir_stack) > 0) =>
          \A ls \in {<<LineDirA, "Directory", <<"a">>, 0>>,
                     <<LineDirB, "Directory", <<"b">>, 0>>,
                     <<LineFileSmall, "File", <<"a">>, 60000>>,
                     <<LineFileBig, "File", <<"a">>, 40000000>>} :
             LET top_dir == dir_stack[Len(dir_stack)]
                 new == Len(nodes) + 1
                 r == ProcessLine(nodes, dir_stack, ls[1])
             IN  /\ r.ok
                 /\ r.dir_stack = dir_stack
                 /\ Len(r.nodes) = new
                 /\ r.nodes[new].kind = ls[2]
                 /\ r.nodes[new].name = ls[3]
                 /\ r.nodes[new].children = <<>>
                 /\ ls[2] = "File" => GetTotalSize(r.nodes, new) = ls[4]
                 /\ r.nodes[top_dir].children = Append(nodes[top_dir].children, new)
                 /\ r.nodes[top_dir].name = nodes[top_dir].name
                 /\ r.nodes[top_dir].kind = nodes[top_dir].kind
                 /\ \A n \in 1..Len(nodes) : n # top_dir => r.nodes[n] = nodes[n]

\* C13 witness: the current directory is a subdirectory that has received a
\* file and then a directory.
C13_Witness ==
    /\ pc = "parsing"
    /\ Len(dir_stack) >= 2
    /\ LET cs == nodes[dir_stack[Len(dir_stack)]].children
       IN  /\ Len(cs) >= 2
           /\ nodes[cs[1]].kind = "File"
           /\ nodes[cs[2]].kind = "Directory"

\* Listing lines (a first token that is not `$`, then a name) whose first
\* token is neither `dir` nor a number: `6x a`, `-1 a`, ` a`.
MalformedSizeLines == {LineBadSize, LineNegSize, LineNoSize}

\* C14: a listing line whose first token is neither `dir` nor a non-negative
\* decimal integer panics with 'unexpected file size format' in every parser
\* state (whatever the cursor stack holds), and no node is added for it.
C14_MalformedSize ==
    pc = "parsing" =>
        \A line \in MalformedSizeLines :
            LET r == ProcessLine(nodes, dir_stack, line)
            IN  /\ ~r.ok
                /\ r.err = "unexpected file size format"
                /\ r.nodes = nodes
                /\ r.dir_stack = dir_stack

\* C14 witness: the parser has stopped on a malformed size inside a
\* subdirectory that already holds a file.
C14_Witness ==
    /\ pc = "panicked"
    /\ err = "unexpected file size format"
    /\ Len(dir_stack) >= 2
    /\ nodes[dir_stack[Len(dir_stack)]].children # <<>>

\* C15 as stated: a blank line is ignored: in every parser state it is
\* consumed without failure and leaves the tree and the cursor stack as
\* they are.
C15_BlankLinesIgnored ==
    pc = "parsing" =>
        LET r == ProcessLine(nodes, dir_stack, LineBlank)
        IN  r.ok /\ r.nodes = nodes /\ r.dir_stack = dir_stack

\* The panics that stand for UnrecognizedTranscriptLine.
UnrecognizedLinePanics ==
    {"unexpected shell command", "missing argument to cd command", "unexpected ls output"}

\* Non-blank lines that match none of `$ cd ARG`, `$ ls`, `dir NAME`,
\* `SIZE NAME`: `$`, `$ cd`, `$ rm a`, `dir`, `$ ls -l`, `dir a x`, `$ cd a b`.
OffGrammarLines ==
    {LineDollar, LineCdNoArg, LineRm, LineDirNoName, LineLsExtra, LineDirExtra,
     LineCdExtra}

\* C16 as stated: every non-blank line that matches no grammar production
\* makes the parser fail as an unrecognized line, in every parser state, and
\* is never accepted.
C16_OffGrammarLinesFail ==
    pc = "parsing" =>
        \A line \in OffGrammarLines :
            LET r == ProcessLine(nodes, dir_stack, line)
            IN  ~r.ok /\ r.err \in UnrecognizedLinePanics

\* Positions of the children of cell n (of any kind) that are named `name`.
ChildrenNamed(ns, n, name) ==
    {i \in 1..Len(ns[n].children) : ns[ns[n].children[i]].name = name}

C18_DuplicateNamesCoexist ==
    /\ \A d \in 1..Len(nodes) :
          \A i \in 1..Len(nodes[d].children) : \A j \in 1..Len(nodes[d].children) :
             LET ci == nodes[d].children[i]
                 cj == nodes[d].children[j]
             IN  (/\ i < j
                  /\ nodes[ci].kind = "Directory"
                  /\ nodes[cj].kind = "Directory"
                  /\ nodes[ci].name = nodes[cj].name)
                 => nodes[cj].children = <<>>
    /\ (pc = "parsing" /\ Len(dir_stack) > 0) =>
          \A ls \in {<<LineDirA, <<"a">>, LineCdA, 0>>,
                     <<LineDirB, <<"b">>, LineCdB, 0>>,
                     <<LineFileSmall, <<"a">>, LineCdA, 60000>>} :
             LET top_dir == dir_stack[Len(dir_stack)]
                 old == nodes[top_dir].children
                 new == Len(nodes) + 1
                 r == ProcessLine(nodes, dir_stack, ls[1])
                 same == {old[i] : i \in ChildrenNamed(nodes, top_dir, ls[2])}
                 ys == Collect(r.nodes, IntoIter(Root))
                 dirs == ChildDirsNamed(r.nodes, top_dir, ls[2])
                 cd == ProcessLine(r.nodes, r.dir_stack, ls[3])
             IN  same # {} =>
                    /\ r.ok
                    /\ r.nodes[top_dir].children = Append(old, new)
                    /\ r.nodes[new].name = ls[2]
                    /\ \A c \in same : r.nodes[c] = nodes[c]
                    /\ \A c \in same \cup {new} : Occurrences(ys, c) = 1
                    /\ GetTotalSize(r.nodes, Root) = GetTotalSize(nodes, Root) + ls[4]
                    /\ GetTotalSize(r.nodes, top_dir) = GetTotalSize(nodes, top_dir) + ls[4]
                    /\ dirs # {} =>
                          /\ cd.ok
                          /\ cd.dir_stack =
                                Append(dir_stack, r.nodes[top_dir].children[MinOf(dirs)])
                          /\ (ls[4] = 0 /\ ChildDirsNamed(nodes, top_dir, ls[2]) # {})
                                => cd.dir_stack[Len(cd.dir_stack)] # new

\* C18 witness: a finished traversal has yielded two sibling directories of
\* one name, the first of which was entered by `cd` and given a child.
C18_Witness ==
    /\ Exhausted
    /\ \E i \in 1..Len(nodes[Root].children) : \E j \in 1..Len(nodes[Root].children) :
          LET ci == nodes[Root].children[i]
              cj == nodes[Root].children[j]
          IN  /\ i < j
              /\ nodes[ci].kind = "Directory"
              /\ nodes[cj].kind = "Directory"
              /\ nodes[ci].name = nodes[cj].name
              /\ nodes[ci].children # <<>>
              /\ Occurrences(yielded, ci) = 1
              /\ Occurrences(yielded, cj) = 1

\* The places where node n appears as a child: pairs of a node and an index
\* into its children sequence.
ParentSlots(ns, n) ==
    {s \in (1..Len(ns)) \X (1..Len(ns)) :
        s[2] <= Len(ns[s[1]].children) /\ ns[s[1]].children[s[2]] = n}

\* C19: tree shape.  In every state of the parser, and so after every
\* successfully processed line, the root is a directory named `/` that is
\* nobody's child; every other node appears exactly once in the children of
\* exactly one node, and that node is a directory created before it; files
\* have no children; and every node is reachable from the root.
C19_TreeShape ==
    /\ Len(nodes) >= 1
    /\ nodes[Root].kind = "Directory"
    /\ nodes[Root].name = <<"/">>
    /\ ParentSlots(nodes, Root) = {}
    /\ \A n \in 2..Len(nodes) :
          /\ Cardinality(ParentSlots(nodes, n)) = 1
          /\ \A s \in ParentSlots(nodes, n) :
                s[1] < n /\ nodes[s[1]].kind = "Directory"
    /\ \A n \in 1..Len(nodes) :
          /\ nodes[n].kind = "File" => nodes[n].children = <<>>
          /\ \A i \in 1..Len(nodes[n].children) :
                nodes[n].children[i] \in 2..Len(nodes)
    /\ TreeNodes(nodes) = 1..Len(nodes)

\* C19 witness: the parser has built a tree of the largest size, with a node
\* two levels below the root next to siblings declared at the root.
C19_Witness ==
    /\ pc = "parsing"
    /\ Len(nodes) = MaxNodes
    /\ Len(nodes[Root].children) >= 2
    /\ \E c \in 2..Len(nodes) : \E g \in 2..Len(nodes) :
          /\ ParentSlots(nodes, c) = {<<Root, 1>>}
          /\ \E i \in 1..Len(nodes[c].children) : nodes[c].children[i] = g

\* ---------------------------------------------- one iterator, pulled on
\* A caller takes its one iterator over the parsed filesystem.
FreshIntoIter ==
    /\ iter = NoIter
    /\ CallIntoIter

TraversalNext ==
    \/ ParseLine
    \/ ParseEnd
    \/ FreshIntoIter
    \/ CallNext

\* A transcript is parsed, one iterator is taken, and the caller keeps
\* calling next() on it: a call that can be made is eventually made.
TraversalSpec == Init /\ [][TraversalNext]_vars /\ WF_vars(CallNext)

\* Every next() so far returned an item; none returned None yet.
Pulling == iter.current_dir # None /\ ret # None

\* The calls of next() made on the iterator, the one that returned None
\* included.
CallsMade == Len(yielded) + (IF ret = None THEN 1 ELSE 0)

\* C20: the traversal terminates.  While an iterator is pulled, the calls made
\* on it never exceed the number of nodes (so the first None comes within one
\* call per node plus one); once as many items as there are nodes below the
\* root were returned, the next call returns None; the loop inside one call
\* only pops frames, of which there are fewer than there are directories; and
\* a caller that keeps calling next() does reach a call that returns None.
C20_TraversalTerminates ==
    /\ [](iter.current_dir # None =>
            /\ CallsMade <= Cardinality(TreeNodes(nodes))
            /\ CallsMade <= Len(nodes) + 1
            /\ Len(yielded) = Cardinality(TreeNodes(nodes)) - 1
                  => FsIteratorNext(nodes, iter).ret = None
            /\ Len(iter.dir_stack) < Cardinality(DirNodes(nodes))
            /\ LET p == PopExhausted(nodes, iter)
               IN  /\ p.err = ""
                   /\ Len(p.iter.dir_stack) <= Len(iter.dir_stack)
                   /\ p.iter.dir_stack =
                         SubSeq(iter.dir_stack, 1, Len(p.iter.dir_stack)))
    /\ (Pulling ~> Exhausted)

\* C20 witness: next() has returned None on a tree of the largest size with a
\* directory inside a directory, after one call per node below the root.
C20_Witness ==
    /\ Exhausted
    /\ Len(nodes) = MaxNodes
    /\ Len(yielded) = MaxNodes - 1
    /\ \E c \in 2..Len(nodes) : \E g \in 2..Len(nodes) :
          /\ nodes[g].kind = "Directory"
          /\ \E i \in 1..Len(nodes[c].children) : nodes[c].children[i] = g

\* ------------------------------------------ two iterators over one tree
\* A second `fs.into_iter()` on the same Filesystem, as main makes for its
\* second query.
CallIntoIter2 ==
    /\ Reading
    /\ iter2' = IntoIter(Root)
    /\ ret2' = -1
    /\ yielded2' = <<>>
    /\ UNCHANGED <<pc, err, nodes, dir_stack, iter, ret, yielded, q1, q2>>
    /\ UNCHANGED <<day01vars, day06vars>>

\* Mutant of CallNext2: the cursor lives in the Filesystem, so the second
\* iterator's next() reads and moves the first iterator's position.
CallNext2SharedCursor ==
    /\ Reading
    /\ iter2.current_dir # None
    /\ iter.current_dir # None
    /\ LET r == FsIteratorNext(nodes, iter)
       IN  /\ iter2' = r.iter
           /\ iter' = r.iter
           /\ ret2' = r.ret
           /\ yielded2' = IF r.ret = None THEN yielded2 ELSE Append(yielded2, r.ret)
    /\ UNCHANGED <<pc, err, nodes, dir_stack, ret, yielded, q1, q2>>
    /\ UNCHANGED <<day01vars, day06vars>>

\* next() on the second iterator: it reads the tree and its own fields.
CallNext2 ==
    /\ Reading
    /\ iter2.current_dir # None
    /\ LET r == FsIteratorNext(nodes, iter2)
       IN  /\ iter2' = r.iter
           /\ ret2' = r.ret
           /\ yielded2' = IF r.ret = None THEN yielded2 ELSE Append(yielded2, r.ret)
           /\ IF r.err = ""
              THEN UNCHANGED <<pc, err>>
              ELSE pc' = "panicked" /\ err' = r.err
    /\ UNCHANGED <<nodes, dir_stack, iter, ret, yielded, q1, q2>>
    /\ UNCHANGED <<day01vars, day06vars>>

InterleaveNext ==
    \/ ParseLine
    \/ ParseEnd
    \/ CallIntoIter
    \/ CallNext
    \/ CallIntoIter2
    \/ CallNext2

\* A transcript is parsed and two iterators over the tree are taken, retaken
\* and pulled in any order.
InterleaveSpec == Init /\ [][InterleaveNext]_vars

\* The iterator `it` after k further calls of next() with no other caller.
RECURSIVE NextTimes(_, _, _)
NextTimes(ns, it, k) ==
    IF k = 0 THEN it ELSE NextTimes(ns, FsIteratorNext(ns, it).iter, k - 1)

\* An iterator with fields `it`, items `ys` and last result `r` is where a
\* fresh iterator run alone is after the same number of calls, and has
\* returned the same items.
AsWhenRunAlone(it, ys, r) ==
    LET alone == Collect(nodes, IntoIter(Root))
        calls == Len(ys) + (IF r = None THEN 1 ELSE 0)
    IN  /\ Len(ys) <= Len(alone)
        /\ ys = SubSeq(alone, 1, Len(ys))
        /\ it = NextTimes(nodes, IntoIter(Root), calls)
        /\ r = None => ys = alone
        /\ (ys = <<>> /\ r = -1) =>
              it = [dir_stack |-> <<>>, current_dir |-> Root, current_child_index |-> 0]

\* C21: traversals are independent and start fresh.  However the into_iter
\* and next() calls of two iterators over one tree are interleaved, each
\* iterator is at the root with an empty frame stack when taken, is always
\* where it would be had it run alone, and has yielded the whole pre-order
\* sequence when its next() returns None.
C21_IndependentTraversals ==
    /\ iter.current_dir # None => AsWhenRunAlone(iter, yielded, ret)
    /\ iter2.current_dir # None => AsWhenRunAlone(iter2, yielded2, ret2)

\* C21 witness: on a tree of the largest size the second iterator has run to
\* None while the first, taken before, is part-way and inside a directory.
C21_Witness ==
    /\ Len(nodes) = MaxNodes
    /\ ret2 = None /\ Len(yielded2) = MaxNodes - 1
    /\ iter.current_dir # None /\ ret # None
    /\ Len(yielded) \in 1..(MaxNodes - 2)
    /\ Len(iter.dir_stack) > 0

\* ------------------------------------------ well-formed transcripts
\* One line of a well-formed transcript is consumed.
ParseTranscriptLine == ParseLineFrom(TranscriptAlphabet)

EndToEndNext ==
    \/ ParseTranscriptLine
    \/ ParseEnd
    \/ FreshIntoIter
    \/ CallNext

\* A well-formed transcript is parsed and the tree is traversed once.
EndToEndSpec == Init /\ [][EndToEndNext]_vars

\* `$ cd /`, `$ ls`, `dir a`, `$ cd a`, `$ ls`, `100 f`
ExampleTranscript == <<LineCdRoot, LineLs, LineDirA, LineCdA, LineLs, Line100F>>

\* `/` containing directory `a` containing file `f` of size 100
ExampleTree ==
    <<Directory(<<"/">>, <<2>>), Directory(<<"a">>, <<3>>), File(<<"f">>, 100)>>

\* The nodes listed under directory d: cells are allocated one per listing
\* line, so a smaller index is an earlier listing line.
ListedUnder(ns, d) ==
    {n \in 1..Len(ns) : \E i \in 1..Len(ns[d].children) : ns[d].children[i] = n}

\* Pre-order over the nodes below d, siblings taken in the order of their
\* listing lines, starting with the siblings numbered `from` or more.
RECURSIVE ListingOrder(_, _, _)
ListingOrder(ns, d, from) ==
    LET S == {n \in ListedUnder(ns, d) : n >= from}
    IN  IF S = {} THEN <<>>
        ELSE LET n == MinOf(S)
             IN  <<n>> \o ListingOrder(ns, n, 1) \o ListingOrder(ns, d, n + 1)

\* C22: end to end.  Parsing the example transcript gives the tree `/` > `a` >
\* `f`(100) with total_size(a) = 100 and traversal [a, f], both as a function
\* of the transcript and in the run that reads it line by line; and for every
\* parsed well-formed transcript a whole traversal yields the nodes in
\* pre-order with siblings in the order of their listing lines, whatever the
\* order in which the directories were entered by `cd`.
C22_EndToEnd ==
    /\ LET r == ParseShellSessionOutput(ExampleTranscript)
       IN  /\ r.ok
           /\ r.nodes = ExampleTree
           /\ GetTotalSize(r.nodes, 2) = 100
           /\ Collect(r.nodes, IntoIter(Root)) = <<2, 3>>
    /\ (Exhausted /\ nodes = ExampleTree) =>
          yielded = <<2, 3>> /\ GetTotalSize(nodes, yielded[1]) = 100
    /\ Exhausted => yielded = ListingOrder(nodes, Root, 1)

\* C22 witness: the example transcript was read line by line (the only way to
\* this tree) and the traversal of its tree has ended.
C22_Witness ==
    /\ Exhausted
    /\ nodes = ExampleTree
    /\ yielded = <<2, 3>>

\* The items returned so far, as a set.
Yielded == {yielded[i] : i \in 1..Len(yielded)}

\* C26: descending.  When next() yields a directory, the frame it pushes is
\* (the directory it was reading, the index just past the yielded child) and
\* the yielded directory becomes current with index 0.  So every frame on the
\* stack points just past a yielded directory, whose earlier siblings were all
\* yielded and whose later siblings were not, and no node is yielded twice.
C26_FrameHoldsAdvancedIndex ==
    iter.current_dir # None =>
        /\ LET p == PopExhausted(nodes, iter)
               r == FsIteratorNext(nodes, iter)
           IN  (r.ret # None /\ nodes[r.ret].kind = "Directory") =>
                  /\ nodes[p.iter.current_dir].children[p.iter.current_child_index + 1]
                        = r.ret
                  /\ r.iter.dir_stack =
                        Append(p.iter.dir_stack,
                               <<p.iter.current_dir, p.iter.current_child_index + 1>>)
                  /\ r.iter.current_dir = r.ret
                  /\ r.iter.current_child_index = 0
        /\ \A k \in 1..Len(iter.dir_stack) :
              LET d == iter.dir_stack[k][1]
                  i == iter.dir_stack[k][2]
              IN  /\ i \in 1..Len(nodes[d].children)
                  /\ nodes[nodes[d].children[i]].kind = "Directory"
                  /\ \A j \in 1..Len(nodes[d].children) :
                        nodes[d].children[j] \in Yielded <=> j <= i
        /\ \A n \in 1..Len(nodes) : Occurrences(yielded, n) <= 1

\* C26 witness: a directory with a child was yielded and left again, and the
\* traversal went on with the directory's next sibling.
C26_Witness ==
    /\ Len(yielded) = 3
    /\ nodes[Root].children = <<yielded[1], yielded[3]>>
    /\ nodes[yielded[1]].children = <<yielded[2]>>

\* C27: the end.  A call of next() returns None exactly when every node below
\* the root has been returned; it then leaves the frame stack empty and the
\* root, exhausted, as the current directory, however many frames it had to
\* pop in that one call.
C27_NoneOnlyAtTheEnd ==
    iter.current_dir # None =>
        /\ LET r == FsIteratorNext(nodes, iter)
           IN  /\ r.ret = None <=> Yielded = TreeNodes(nodes) \ {Root}
               /\ r.ret = None =>
                     /\ r.iter.dir_stack = <<>>
                     /\ r.iter.current_dir = Root
                     /\ r.iter.current_child_index >= Len(nodes[Root].children)
        /\ ret = None =>
              /\ Yielded = TreeNodes(nodes) \ {Root}
              /\ iter.dir_stack = <<>>
              /\ iter.current_child_index >= Len(nodes[iter.current_dir].children)

\* C27 witness: next() has returned None on a chain of last children (each
\* directory holding only the next one); the call before it left two frames or
\* more on the stack, all popped by the call that returned None.
C27_Witness ==
    /\ Exhausted
    /\ Len(nodes) = MaxNodes
    /\ \A n \in 1..(MaxNodes - 1) : nodes[n].children = <<n + 1>>
    /\ Len(NextTimes(nodes, IntoIter(Root), MaxNodes - 1).dir_stack) >= 2
    /\ iter.dir_stack = <<>>

\* The directory that holds node n (None for the root).
ParentOf(ns, n) ==
    IF \E d \in 1..Len(ns) : n \in ListedUnder(ns, d)
    THEN CHOOSE d \in 1..Len(ns) : n \in ListedUnder(ns, d)
    ELSE None

\* The number of ancestors of node n; below a parser-built tree a parent is
\* always an older cell, so this ends at the root.
RECURSIVE Depth(_, _)
Depth(ns, n) ==
    LET d == ParentOf(ns, n)
    IN  IF d = None \/ d >= n THEN 0 ELSE 1 + Depth(ns, d)

\* The frame stack's directories, bottom to top, followed by the current one.
IterChain(it) ==
    [k \in 1..(Len(it.dir_stack) + 1) |->
        IF k <= Len(it.dir_stack) THEN it.dir_stack[k][1] ELSE it.current_dir]

\* C28: frame-stack invariant.  Between next() calls the directories of the
\* frame stack, bottom to top, followed by the current directory are the
\* ancestors of the current directory from the root down, each the parent of
\* the next; so the stack is as long as the current directory is deep, and
\* never longer than the tree is deep.
C28_FrameStackIsAncestorChain ==
    iter.current_dir # None =>
        LET chain == IterChain(iter)
        IN  /\ chain[1] = Root
            /\ \A k \in 1..Len(iter.dir_stack) : ParentOf(nodes, chain[k + 1]) = chain[k]
            /\ \A k \in 1..Len(chain) : nodes[chain[k]].kind = "Directory"
            /\ Len(iter.dir_stack) = Depth(nodes, iter.current_dir)
            /\ \E n \in 1..Len(nodes) : Len(iter.dir_stack) <= Depth(nodes, n)

\* C28 witness: the iterator is suspended two directories below the root,
\* with other nodes still to come.
C28_Witness ==
    /\ iter.current_dir # None /\ ret # None
    /\ Len(iter.dir_stack) = 2
    /\ Depth(nodes, iter.current_dir) = 2
    /\ Len(yielded) < Len(nodes) - 1

\* The `$ cd` lines of the alphabet.
CdLines == {LineCdRoot, LineCdUp, LineCdA, LineCdB, LineCdNoArg, LineCdExtra}

\* C29: `$ cd ..` issued while the cursor stack holds only the root fails
\* (StackUnderflow), and so after every successfully processed `cd` line that
\* follows the first `cd /` the cursor stack is non-empty.
C29_CdUpAtRootFails ==
    (pc = "parsing" /\ Len(dir_stack) > 0) =>
        /\ dir_stack = <<Root>> => ~ProcessLine(nodes, dir_stack, LineCdUp).ok
        /\ \A line \in CdLines :
              LET r == ProcessLine(nodes, dir_stack, line)
              IN  r.ok => Len(r.dir_stack) > 0

\* The listing lines of the alphabet: neither `$ ls` nor `$ cd`.
ListingLines ==
    {LineDirA, LineDirB, LineFileSmall, LineFileBig, LinePlusSize, LineDirExtra,
     LineDirNoName, LineBadSize, LineNegSize, LineNoSize, Line100F}

\* C30: frame conditions of the parser steps.  A `$ ls` line changes neither
\* the tree nor the cursor stack; a `$ cd` line, failing or not, leaves every
\* node as it is and creates none; a listing line that succeeds creates one
\* node, appends it to the children of the directory on top of the cursor
\* stack, and leaves the cursor stack and every other node unchanged, and one
\* that fails changes nothing.
C30_FrameConditions ==
    pc = "parsing" =>
        /\ LET r == ProcessLine(nodes, dir_stack, LineLs)
           IN  r.ok /\ r.nodes = nodes /\ r.dir_stack = dir_stack
        /\ \A line \in CdLines :
              LET r == ProcessLine(nodes, dir_stack, line)
              IN  /\ r.nodes = nodes
                  /\ ~r.ok => r.dir_stack = dir_stack
        /\ \A line \in ListingLines :
              LET r == ProcessLine(nodes, dir_stack, line)
                  new == Len(nodes) + 1
              IN  /\ r.dir_stack = dir_stack
                  /\ ~r.ok => r.nodes = nodes
                  /\ r.ok =>
                        /\ Len(dir_stack) > 0
                        /\ Len(r.nodes) = new
                        /\ r.nodes[new].children = <<>>
                        /\ \A n \in 1..Len(nodes) :
                              IF n = dir_stack[Len(dir_stack)]
                              THEN r.nodes[n] =
                                      [nodes[n] EXCEPT !.children = Append(@, new)]
                              ELSE r.nodes[n] = nodes[n]

\* C30 witness: the parser stands in a subdirectory that has a child, beside
\* other nodes, so each kind of line has nodes and a cursor it must not touch.
C30_Witness ==
    /\ pc = "parsing"
    /\ Len(dir_stack) = 2
    /\ nodes[dir_stack[2]].children # <<>>
    /\ Len(nodes[Root].children) >= 2

\* ------------------------------------------------------------- day01.rs
\* Longest token stream handed to the day01 functions.
MaxLedger == 4

\* enum CalorieLedgerToken { Newline, Number(u64) }
Newline == [kind |-> "Newline", calories |-> 0]

Number(c) == [kind |-> "Number", calories |-> c]

\* The u64 payloads tried; sums stay far below 2^64, so `+=` never overflows.
NumberValues == {1, 2, 3}

LedgerTokens == {Newline} \cup {Number(c) : c \in NumberValues}

Ledgers == UNION {[1..n -> LedgerTokens] : n \in 0..MaxLedger}

\* Option<u64>: None is <<>>, Some(v) is <<v>>.
NoCalories == <<>>

SomeCalories(v) == <<v>>

MaxU64(a, b) == IF a >= b THEN a ELSE b

\* challenge_stage1's `for entry in iter` from token k on, with the locals
\* max_calories and acc, and the final cmp::max(acc, max_calories).
RECURSIVE Stage1Loop(_, _, _, _)
Stage1Loop(toks, k, max_calories, acc) ==
    IF k > Len(toks) THEN MaxU64(acc, max_calories)
    ELSE IF toks[k].kind = "Newline"
    THEN Stage1Loop(toks, k + 1, MaxU64(acc, max_calories), 0)
    ELSE Stage1Loop(toks, k + 1, max_calories, acc + toks[k].calories)

ChallengeStage1(toks) == Stage1Loop(toks, 1, 0, 0)

\* iter.map_while(..).sum1() of the batching closure, the token iterator
\* having given `pos` tokens already: tokens are taken up to and including the
\* next Newline (or to the end); `count` is the number of Numbers summed.
RECURSIVE MapWhileSum1(_, _, _, _)
MapWhileSum1(toks, pos, sum, count) ==
    IF pos >= Len(toks) THEN [pos |-> pos, sum |-> sum, count |-> count]
    ELSE IF toks[pos + 1].kind = "Newline"
    THEN [pos |-> pos + 1, sum |-> sum, count |-> count]
    ELSE MapWhileSum1(toks, pos + 1, sum + toks[pos + 1].calories, count + 1)

\* One next() of iter_calories' Batching adaptor: one call of the closure,
\* whose sum1() is None when map_while gave it no item.
IterCaloriesNext(toks, pos) ==
    LET r == MapWhileSum1(toks, pos, 0, 0)
    IN  [pos |-> r.pos,
         ret |-> IF r.count = 0 THEN NoCalories ELSE SomeCalories(r.sum)]

\* `for value in iter_calories(iter)`: the values up to the first None.
RECURSIVE IterCalories(_, _)
IterCalories(toks, pos) ==
    LET r == IterCaloriesNext(toks, pos)
    IN  IF r.ret = NoCalories THEN <<>> ELSE <<r.ret[1]>> \o IterCalories(toks, r.pos)

\* The min_by(..) of keep_n_largest: the first index holding the least value
\* (0 for an empty array).
IndexOfMin(n_largest) ==
    IF Len(n_largest) = 0 THEN 0
    ELSE CHOOSE i \in 1..Len(n_largest) :
            /\ \A j \in 1..Len(n_largest) : n_largest[i] <= n_largest[j]
            /\ \A j \in 1..(i - 1) : n_largest[j] > n_largest[i]

KeepNLargest(n_largest, value) ==
    LET index_of_min == IndexOfMin(n_largest)
    IN  IF index_of_min # 0 /\ n_largest[index_of_min] < value
        THEN [n_largest EXCEPT ![index_of_min] = value]
        ELSE n_largest

RECURSIVE NLargestLoop(_, _, _)
NLargestLoop(n_largest, values, k) ==
    IF k > Len(values) THEN n_largest
    ELSE NLargestLoop(KeepNLargest(n_largest, values[k]), values, k + 1)

RECURSIVE SumSeq(_, _)
SumSeq(seq, k) == IF k > Len(seq) THEN 0 ELSE seq[k] + SumSeq(seq, k + 1)

\* challenge_n_largest::<N>(iter)
ChallengeNLargest(N, toks) ==
    SumSeq(NLargestLoop([i \in 1..N |-> 0], IterCalories(toks, 0), 1), 1)

\* A token stream is handed to the functions.
LedgerGiven ==
    /\ ledger \in Ledgers
    /\ consumed = 0
    /\ calories = <<>>
    /\ cal_ret = <<-1>>
    /\ stage1 = -1
    /\ n_largest1 = -1

\* iter.next() on iter_calories(ledger.iter()), as the tests call it.
CallIterCaloriesNext ==
    /\ LET r == IterCaloriesNext(ledger, consumed)
       IN  /\ consumed' = r.pos
           /\ cal_ret' = r.ret
           /\ calories' = IF r.ret = NoCalories THEN calories
                          ELSE Append(calories, r.ret[1])
    /\ UNCHANGED <<ledger, stage1, n_largest1>>
    /\ UNCHANGED <<pc, err, nodes, dir_stack, iter, ret, yielded, q1, q2>>
    /\ UNCHANGED <<iter2vars, day06vars>>

\* challenge_stage1(ledger.iter())
CallChallengeStage1 ==
    /\ stage1 = -1
    /\ stage1' = ChallengeStage1(ledger)
    /\ UNCHANGED <<ledger, consumed, calories, cal_ret, n_largest1>>
    /\ UNCHANGED <<pc, err, nodes, dir_stack, iter, ret, yielded, q1, q2>>
    /\ UNCHANGED <<iter2vars, day06vars>>

\* challenge_n_largest::<1>(ledger.iter())
CallChallengeNLargest1 ==
    /\ n_largest1 = -1
    /\ n_largest1' = ChallengeNLargest(1, ledger)
    /\ UNCHANGED <<ledger, consumed, calories, cal_ret, stage1>>
    /\ UNCHANGED <<pc, err, nodes, dir_stack, iter, ret, yielded, q1, q2>>
    /\ UNCHANGED <<iter2vars, day06vars>>

Day01Next ==
    \/ CallIterCaloriesNext
    \/ CallChallengeStage1
    \/ CallChallengeNLargest1

\* The day01 functions are about to run on a ledger; nothing else runs.
Day01Init == Day07Init /\ Iter2Idle /\ LedgerGiven /\ Day06Idle

Day01Spec == Day01Init /\ [][Day01Next]_vars

\* The positions where a maximal run of Number tokens starts.
RunStarts(toks) ==
    {i \in 1..Len(toks) :
        toks[i].kind = "Number" /\ (i = 1 \/ toks[i - 1].kind = "Newline")}

\* The sum of the run of Number tokens that starts at position i.
RECURSIVE RunSum(_, _)
RunSum(toks, i) ==
    IF i > Len(toks) \/ toks[i].kind = "Newline" THEN 0
    ELSE toks[i].calories + RunSum(toks, i + 1)

\* The sums of the maximal runs of Number tokens that start at `from` or
\* later, in stream order.
RECURSIVE GroupSums(_, _)
GroupSums(toks, from) ==
    LET S == {i \in RunStarts(toks) : i >= from}
    IN  IF S = {} THEN <<>>
        ELSE <<RunSum(toks, MinOf(S))>> \o GroupSums(toks, MinOf(S) + 1)

\* The largest group sum, 0 when there is no group.
LargestGroupSum(toks) ==
    LET g == GroupSums(toks, 1)
    IN  IF g = <<>> THEN 0
        ELSE g[CHOOSE i \in 1..Len(g) : \A j \in 1..Len(g) : g[j] <= g[i]]

\* C23: challenge_n_largest::<1> generalizes challenge_stage1.  For every
\* token stream, those that start with a Newline or hold two Newlines in a
\* row included, both return the same value, the largest group sum.
C23_NLargest1EqualsStage1 ==
    (stage1 # -1 /\ n_largest1 # -1) =>
        /\ n_largest1 = stage1
        /\ stage1 = LargestGroupSum(ledger)

\* C24: iter_calories yields the group sums.  The items returned are, in
\* order, the sums of the maximal runs of Number tokens, one item per run,
\* and None is returned only once every token has been consumed, all the
\* sums having been returned by then.
C24_IterCaloriesYieldsGroupSums ==
    /\ Len(calories) <= Len(GroupSums(ledger, 1))
    /\ calories = SubSeq(GroupSums(ledger, 1), 1, Len(calories))
    /\ cal_ret = NoCalories =>
          /\ consumed = Len(ledger)
          /\ calories = GroupSums(ledger, 1)

\* ------------------------------------------------------------- day06.rs
\* Longest stream handed to find_first_marker, and largest window length N.
MaxStream == 4

MaxMarkerLen == 3

StreamChars == {"a", "b", "c"}

Streams == UNION {[1..n -> StreamChars] : n \in 1..MaxStream}

\* Option<usize>::None; Some(pos) is pos.
NoMarker == -1

\* The failed `assert!(stream.len() >= N)`.
MarkerPanic == -2

\* has_duplicates(&buf): the scan `for i in 0..N` with the HashSet `seen`.
RECURSIVE HasDuplicatesFrom(_, _, _)
HasDuplicatesFrom(buf, i, seen) ==
    IF i > Len(buf) THEN FALSE
    ELSE IF buf[i] \in seen THEN TRUE
    ELSE HasDuplicatesFrom(buf, i + 1, seen \cup {buf[i]})

HasDuplicates(buf) == HasDuplicatesFrom(buf, 1, {})

\* The `while let Some((pos, c)) = iter.next()` loop: `pos` characters have
\* been taken from the stream, buf is the ring buffer and idx its write index.
RECURSIVE MarkerLoop(_, _, _, _, _)
MarkerLoop(N, s, pos, buf, idx) ==
    IF pos >= Len(s) THEN NoMarker
    ELSE IF ~HasDuplicates(buf) THEN pos
    ELSE MarkerLoop(N, s, pos + 1,
                    [buf EXCEPT ![idx + 1] = s[pos + 1]], (idx + 1) % N)

\* find_first_marker::<N>(stream)
FindFirstMarker(N, s) ==
    IF Len(s) < N THEN MarkerPanic
    ELSE MarkerLoop(N, s, N, SubSeq(s, 1, N), 0)

\* A stream is chosen.
StreamGiven == stream \in Streams /\ marker = <<>>

\* find_first_marker is about to run on a stream; nothing else runs.
Day06Init == Day07Init /\ Iter2Idle /\ Day01Idle /\ StreamGiven

\* find_first_marker::<N>(stream) is called for some N.
CallFindFirstMarker ==
    /\ marker = <<>>
    /\ \E N \in 1..MaxMarkerLen : marker' = <<N, FindFirstMarker(N, stream)>>
    /\ UNCHANGED stream
    /\ UNCHANGED <<pc, err, nodes, dir_stack, iter, ret, yielded, q1, q2>>
    /\ UNCHANGED <<iter2vars, day01vars>>

\* The stream is dropped and another call can be made.
DropMarker ==
    /\ marker # <<>>
    /\ marker' = <<>>
    /\ UNCHANGED stream
    /\ UNCHANGED <<pc, err, nodes, dir_stack, iter, ret, yielded, q1, q2>>
    /\ UNCHANGED <<iter2vars, day01vars>>

Day06Next == CallFindFirstMarker \/ DropMarker

Day06Spec == Day06Init /\ [][Day06Next]_vars

\* The numbers p of leading characters of s whose last N characters are
\* pairwise distinct.
DistinctWindowEnds(N, s) ==
    {p \in N..Len(s) :
        \A i \in (p - N + 1)..p : \A j \in (p - N + 1)..p : i # j => s[i] # s[j]}

\* C25: find_first_marker::<N>(stream), for a stream of at least N
\* characters, returns Some(p) for the smallest p whose last N characters are
\* pairwise distinct, the case where that window ends at the last character
\* of the stream included, and None only when there is no such window.
C25_FirstMarker ==
    (marker # <<>> /\ Len(stream) >= marker[1]) =>
        LET ends == DistinctWindowEnds(marker[1], stream)
        IN  IF ends = {} THEN marker[2] = NoMarker
            ELSE marker[2] = MinOf(ends)

\* C31: cursor-stack path invariant.  In every state of the parser, and so
\* after every successfully processed line, the cursor stack is empty or a
\* path from the root: its bottom entry is the root and every higher entry is
\* a directory listed directly under the entry below it.  Hence a listing
\* line that succeeds appends to a directory reachable from the root.
C31_CursorStackIsPathFromRoot ==
    /\ dir_stack # <<>> =>
          /\ dir_stack[1] = Root
          /\ \A k \in 1..(Len(dir_stack) - 1) :
                /\ dir_stack[k + 1] \in ListedUnder(nodes, dir_stack[k])
                /\ nodes[dir_stack[k + 1]].kind = "Directory"
          /\ \A k \in 1..Len(dir_stack) : dir_stack[k] \in TreeNodes(nodes)
    /\ pc = "parsing" =>
          \A line \in ListingLines :
             LET r == ProcessLine(nodes, dir_stack, line)
             IN  r.ok =>
                    \E d \in TreeNodes(nodes) :
                       /\ nodes[d].kind = "Directory"
                       /\ Len(nodes) + 1 \in ListedUnder(r.nodes, d)

\* C31 witness: the parser stands two directories below the root.
C31_Witness ==
    /\ pc = "parsing"
    /\ Len(dir_stack) = 3
    /\ dir_stack[2] # dir_stack[3]

\* The panics that only a File in a directory's place can raise.
FileInPlaceOfDirectory ==
    {"cannot push child to a file", "a file has no children",
     "internal error: expected dir, got file"}

\* The fields of an iterator name directories only.
IterOverDirectories(it) ==
    it.current_dir # None =>
        /\ nodes[it.current_dir].kind = "Directory"
        /\ \A k \in 1..Len(it.dir_stack) : nodes[it.dir_stack[k][1]].kind = "Directory"
        /\ PopExhausted(nodes, it).err = ""
        /\ FsIteratorNext(nodes, it).err = ""

\* C32: only directories are navigated into.  Every entry of the parser's
\* cursor stack, and the iterator's current directory and frame
\* directories, is a Directory in every state; no line of the alphabet can
\* raise one of the three file-in-place-of-directory panics, and no run has
\* raised one.
C32_OnlyDirectoriesEntered ==
    /\ \A k \in 1..Len(dir_stack) : nodes[dir_stack[k]].kind = "Directory"
    /\ IterOverDirectories(iter)
    /\ err \notin FileInPlaceOfDirectory
    /\ pc = "parsing" =>
          \A line \in LineAlphabet \cup TranscriptAlphabet :
             ProcessLine(nodes, dir_stack, line).err \notin FileInPlaceOfDirectory

\* C32 witness: the tree holds a file named `a`, `cd a` was run beside it and
\* entered a directory, and a whole traversal has passed over a file.
C32_Witness ==
    /\ Exhausted
    /\ \E f \in 1..Len(nodes) : \E d \in 1..Len(nodes) :
          /\ nodes[f].kind = "File" /\ nodes[f].name = <<"a">>
          /\ nodes[d].kind = "Directory" /\ nodes[d].name = <<"a">>
          /\ ParentOf(nodes, f) = ParentOf(nodes, d)
          /\ nodes[d].children # <<>>
          /\ Occurrences(yielded, f) = 1

\* Most calls of next() tried after the one that returned None.
MaxLaterCalls == 3

\* C33: the iterator is fused.  Once next() has returned None, each later
\* call on the same iterator returns None again, yields no node and leaves
\* the iterator's fields as they are.
C33_Fused ==
    Exhausted =>
        \A k \in 0..MaxLaterCalls :
           LET it == NextTimes(nodes, iter, k)
               r == FsIteratorNext(nodes, it)
           IN  it = iter /\ r.ret = None /\ r.iter = iter /\ r.err = ""

\* C33 witness: next() has returned None after a traversal that went into a
\* directory and came back, on a tree of the largest size.
C33_Witness ==
    /\ Exhausted
    /\ Len(yielded) = MaxNodes - 1
    /\ \E i \in 1..Len(yielded) : nodes[yielded[i]].children # <<>>
    /\ iter = [dir_stack |-> <<>>, current_dir |-> Root,
               current_child_index |-> Len(nodes[Root].children)]

\* C34 as stated: the free-space arithmetic of the second query is well
\* defined for every tree: it never aborts on the subtraction, and the free
\* space the sizes are compared with is max(0, 70000000 - used), so whatever
\* the query returns is at most that.
C34_FreeSpaceNeverUnderflows ==
    /\ err # "attempt to subtract with overflow"
    /\ pc = "q2done" =>
          LET used == GetTotalSize(nodes, Root)
              free == IF Capacity - used > 0 THEN Capacity - used ELSE 0
          IN  q2 <= free

\* The `$ cd NAME` lines of the alphabet.
CdNameLines == {LineCdA, LineCdB, LineCdExtra}

\* C35: while the cursor stack is empty (before the first `$ cd /`, or after
\* the root has been popped by `$ cd ..`), every listing line and every
\* `$ cd NAME` line fails and leaves the tree and the stack as they are; the
\* well-formed ones fail with `unexpected empty stack`.  Nothing is attached to
\* the root implicitly.
C35_EmptyStackLinesFail ==
    /\ (pc = "parsing" /\ dir_stack = <<>>) =>
          /\ \A line \in ListingLines \cup CdNameLines :
                LET r == ProcessLine(nodes, dir_stack, line)
                IN  ~r.ok /\ r.nodes = nodes /\ r.dir_stack = <<>>
          /\ \A line \in {LineDirA, LineDirB, LineFileSmall, LineFileBig, Line100F,
                          LineCdA, LineCdB} :
                ProcessLine(nodes, dir_stack, line).err = "unexpected empty stack"
    /\ err = "unexpected empty stack" => dir_stack = <<>>

\* C35 witness: after `cd /` and some listing the root was popped by `cd ..`,
\* and the next listing or `cd NAME` line made the parser fail.
C35_Witness ==
    /\ pc = "panicked"
    /\ err = "unexpected empty stack"
    /\ dir_stack = <<>>
    /\ Len(nodes[Root].children) >= 2

====
